---- MODULE Spec2Model ----
(***************************************************************************)
(* Model of kubernetes-grapth.py: the graph build of main() over one       *)
(* snapshot of the eight resource collections.  Strings the code splits,   *)
(* joins or formats are sequences of one-character strings; an optional    *)
(* field (None in Python) is a sequence of length 0, a present one <<v>>.  *)
(***************************************************************************)
EXTENDS Integers, Sequences, FiniteSets, Bags, TLC

VARIABLES snap, nodes, edges, pc, status, svc_linked, cur

vars == <<snap, nodes, edges, pc, status, svc_linked, cur>>

(***************************************************************************)
(* Module constants, lines 6-17.                                           *)
(***************************************************************************)
JOB_LABEL == "job"
DAEMON_LABEL == "daemon"
REPLICA_LABEL == "replica"
REPLICA_SET_PREFIX == <<"R","e","p","l","i","c","a","S","e","t">>
CRON_JOB_PREFIX == <<"C","r","o","n","J","o","b">>
JOB_PREFIX == <<"J","o","b">>
INGRESS_PREFIX == <<"I","n","g","r","e","s","s">>
SERVICE_PREFIX == <<"S","e","r","v","i","c","e">>
POD_PREFIX == <<"P","o","d">>
DAEMON_SET_PREFIX == <<"D","a","e","m","o","n","S","e","t">>
STATEFUL_SET_PREFIX == <<"S","t","a","t","e","f","u","l","S","e","t">>
DEPLOYMENT_PREFIX == <<"D","e","p","l","o","y","m","e","n","t">>

(***************************************************************************)
(* Python built-ins the code relies on.                                    *)
(***************************************************************************)
None == <<>>
Some(v) == <<v>>

\* `x or []`, `x or {}`: None (and an empty collection) gives the default.
OrEmpty(opt) == IF opt = None THEN <<>> ELSE opt[1]

RECURSIVE Concat(_)
Concat(ss) == IF Len(ss) = 0 THEN <<>> ELSE Head(ss) \o Concat(Tail(ss))

\* str.split(sep) for a one-character separator: "a-b" -> ["a","b"],
\* "ab" -> ["ab"], "a-" -> ["a",""], "" -> [""].
RECURSIVE SplitAcc(_, _, _, _)
SplitAcc(s, sep, seg, acc) ==
    IF Len(s) = 0 THEN Append(acc, seg)
    ELSE IF Head(s) = sep THEN SplitAcc(Tail(s), sep, <<>>, Append(acc, seg))
    ELSE SplitAcc(Tail(s), sep, Append(seg, Head(s)), acc)

Split(s, sep) == SplitAcc(s, sep, <<>>, <<>>)

\* sep.join(parts)
RECURSIVE Join(_, _)
Join(parts, sep) ==
    IF Len(parts) = 0 THEN <<>>
    ELSE IF Len(parts) = 1 THEN parts[1]
    ELSE parts[1] \o <<sep>> \o Join(Tail(parts), sep)

\* parts[:-1]
AllButLast(parts) == IF Len(parts) = 0 THEN <<>> ELSE SubSeq(parts, 1, Len(parts) - 1)

\* f"{prefix}-{namespace}/{name}"
\* Variant: a hyphen between namespace and name.
FmtIdDash(prefix, ns, name) == prefix \o <<"-">> \o ns \o <<"-">> \o name
FmtId(prefix, ns, name) == prefix \o <<"-">> \o ns \o <<"/">> \o name

\* f"{prefix}\n{name}"
FmtLabel(prefix, name) == prefix \o <<"\n">> \o name

Edge(from, to, label) == [from |-> from, to |-> to, label |-> label]

(***************************************************************************)
(* add_nodes, lines 87-94.                                                 *)
(***************************************************************************)
AddNodesNode(obj, shape, color, prefix) ==
    [id |-> FmtId(prefix, obj.ns, obj.name),
     label |-> FmtLabel(prefix, obj.name),
     shape |-> shape, style |-> "filled", fillcolor |-> color]

add_nodes(items, shape, color, prefix) ==
    [i \in 1..Len(items) |-> AddNodesNode(items[i], shape, color, prefix)]

(***************************************************************************)
(* link_owner_to_pods, lines 99-110.                                       *)
(***************************************************************************)
OwnerBase(name) == Join(AllButLast(Split(name, "-")), "-")

\* Variant: the suffix is stripped for Job owners too.
OwnerIdNoJobCase(pod, owner, owner_kind, prefix) ==
    FmtId(prefix, pod.ns, OwnerBase(owner.name))
OwnerId(pod, owner, owner_kind, prefix) ==
    IF owner_kind # JOB_PREFIX
    THEN FmtId(prefix, pod.ns, OwnerBase(owner.name))
    ELSE FmtId(prefix, pod.ns, owner.name)

OwnerEdgesForPod(pod, owner_kind, label, prefix) ==
    LET pod_id == FmtId(POD_PREFIX, pod.ns, pod.name)
        owners == OrEmpty(pod.owner_references)
    IN Concat([k \in 1..Len(owners) |->
                 IF owners[k].kind = owner_kind
                 THEN <<Edge(OwnerId(pod, owners[k], owner_kind, prefix), pod_id, label)>>
                 ELSE <<>>])

link_owner_to_pods(pods, owner_kind, label, prefix) ==
    Concat([i \in 1..Len(pods) |-> OwnerEdgesForPod(pods[i], owner_kind, label, prefix)])

(***************************************************************************)
(* link_services_to_pods, lines 113-153.                                   *)
(***************************************************************************)
\* selector and all(labels.get(k) == v for k, v in selector.items())
SelMatch(selector, labels) ==
    /\ DOMAIN selector # {}
    /\ \A k \in DOMAIN selector : k \in DOMAIN labels /\ labels[k] = selector[k]

\* The pods the first loop links to svc, in scan order (lines 125-134).
Pass1Pods(svc, pods) ==
    LET selector == OrEmpty(svc.selector)
    IN SelectSeq(pods, LAMBDA pod :
                   /\ pod.ns = svc.ns
                   /\ SelMatch(selector, OrEmpty(pod.labels)))

Pass1ForSvc(svc, pods) ==
    LET svc_id == FmtId(SERVICE_PREFIX, svc.ns, svc.name)
        hit == Pass1Pods(svc, pods)
    IN [edges |-> [i \in 1..Len(hit) |->
                     Edge(svc_id, FmtId(POD_PREFIX, hit[i].ns, hit[i].name), "svc")],
        linked |-> [i \in 1..Len(hit) |-> svc]]

\* `svc in svc_linked`: list membership by ==, which the client's model
\* classes define as equality of the objects' contents.
\* Variant: the second loop skips no Service.
InLinkedNever(svc, linked) == FALSE
InLinked(svc, linked) == \E i \in 1..Len(linked) : linked[i] = svc

\* `p.container_port in ports`: an int equals an int target port of the same
\* value and never a named (string) one.
InPorts(cp, ports) ==
    \E i \in 1..Len(ports) : ports[i].tag = "int" /\ ports[i].num = cp

\* Variant: no namespace test in the second loop.
PodPortEdgesAnyNs(svc, svc_id, ports, pod) ==
    LET pod_id == FmtId(POD_PREFIX, pod.ns, pod.name)
        cs == pod.containers
    IN Concat([c \in 1..Len(cs) |->
                 LET ps == OrEmpty(cs[c].ports)
                 IN Concat([q \in 1..Len(ps) |->
                              IF InPorts(ps[q].container_port, ports)
                              THEN <<Edge(svc_id, pod_id, "svc")>>
                              ELSE <<>>])])
PodPortEdges(svc, svc_id, ports, pod) ==
    IF pod.ns # svc.ns THEN <<>>
    ELSE LET pod_id == FmtId(POD_PREFIX, pod.ns, pod.name)
             cs == pod.containers
         IN Concat([c \in 1..Len(cs) |->
                      LET ps == OrEmpty(cs[c].ports)
                      IN Concat([q \in 1..Len(ps) |->
                                   IF InPorts(ps[q].container_port, ports)
                                   THEN <<Edge(svc_id, pod_id, "svc")>>
                                   ELSE <<>>])])

\* One iteration of the second loop (lines 136-153).  Iterating
\* svc.spec.ports when it is None raises TypeError: ok is FALSE.
Pass2ForSvc(svc, pods, linked) ==
    IF InLinked(svc, linked) THEN [edges |-> <<>>, ok |-> TRUE]
    ELSE IF svc.ports = None THEN [edges |-> <<>>, ok |-> FALSE]
    ELSE LET svc_id == FmtId(SERVICE_PREFIX, svc.ns, svc.name)
             ports == [i \in 1..Len(svc.ports[1]) |-> svc.ports[1][i].target_port]
         IN [edges |-> Concat([i \in 1..Len(pods) |->
                                 PodPortEdges(svc, svc_id, ports, pods[i])]),
             ok |-> TRUE]

RECURSIVE Pass2Loop(_, _, _)
Pass2Loop(services, pods, linked) ==
    IF Len(services) = 0 THEN [edges |-> <<>>, ok |-> TRUE]
    ELSE LET r == Pass2ForSvc(Head(services), pods, linked)
         IN IF ~r.ok THEN r
            ELSE LET rest == Pass2Loop(Tail(services), pods, linked)
                 IN [edges |-> r.edges \o rest.edges, ok |-> rest.ok]

link_services_to_pods(services, pods) ==
    LET p1 == [i \in 1..Len(services) |-> Pass1ForSvc(services[i], pods)]
        e1 == Concat([i \in 1..Len(services) |-> p1[i].edges])
        linked == Concat([i \in 1..Len(services) |-> p1[i].linked])
        p2 == Pass2Loop(services, pods, linked)
    IN [edges |-> e1 \o p2.edges, ok |-> p2.ok, linked |-> linked]

(***************************************************************************)
(* link_ingresses_to_services, lines 156-166.                              *)
(***************************************************************************)
\* Variant: the backend is looked for in one fixed namespace.
PathEdgeFixedNs(ing, ing_id, path) ==
    Edge(ing_id, FmtId(SERVICE_PREFIX, <<"n">>, path.service_name), path.path)
PathEdge(ing, ing_id, path) ==
    Edge(ing_id, FmtId(SERVICE_PREFIX, ing.ns, path.service_name), path.path)

\* The loop over one Ingress's rules.  rule.http.paths when rule.http is
\* None raises AttributeError: ok is FALSE, the edges of the earlier rules
\* are already in the graph.
RECURSIVE RulesLoop(_, _, _)
RulesLoop(ing, ing_id, rules) ==
    IF Len(rules) = 0 THEN [edges |-> <<>>, ok |-> TRUE]
    ELSE IF Head(rules).http = None THEN [edges |-> <<>>, ok |-> FALSE]
    ELSE LET paths == Head(rules).http[1].paths
             here == [i \in 1..Len(paths) |-> PathEdge(ing, ing_id, paths[i])]
             rest == RulesLoop(ing, ing_id, Tail(rules))
         IN [edges |-> here \o rest.edges, ok |-> rest.ok]

IngressEdges(ing) ==
    RulesLoop(ing, FmtId(INGRESS_PREFIX, ing.ns, ing.name), OrEmpty(ing.rules))

RECURSIVE link_ingresses_to_services(_)
link_ingresses_to_services(ingresses) ==
    IF Len(ingresses) = 0 THEN [edges |-> <<>>, ok |-> TRUE]
    ELSE LET r == IngressEdges(Head(ingresses))
         IN IF ~r.ok THEN r
            ELSE LET rest == link_ingresses_to_services(Tail(ingresses))
                 IN [edges |-> r.edges \o rest.edges, ok |-> rest.ok]

(***************************************************************************)
(* link_cronjobs_to_jobs, lines 169-179.                                   *)
(***************************************************************************)
\* The dict comprehension of line 173: a later CronJob of the same uid
\* replaces an earlier one.
CronIds(cronjobs) ==
    [u \in {cronjobs[i].uid : i \in 1..Len(cronjobs)} |->
        LET last == CHOOSE i \in 1..Len(cronjobs) :
                      /\ cronjobs[i].uid = u
                      /\ \A j \in 1..Len(cronjobs) : cronjobs[j].uid = u => j <= i
        IN FmtId(CRON_JOB_PREFIX, cronjobs[last].ns, cronjobs[last].name)]

\* Variant: the owner's kind is not tested.
CronEdgesForJobAnyKind(job, cron_ids) ==
    LET job_id == FmtId(JOB_PREFIX, job.ns, job.name)
        owners == OrEmpty(job.owner_references)
    IN Concat([k \in 1..Len(owners) |->
                 IF owners[k].uid \in DOMAIN cron_ids
                 THEN <<Edge(cron_ids[owners[k].uid], job_id, "schedule")>>
                 ELSE <<>>])
CronEdgesForJob(job, cron_ids) ==
    LET job_id == FmtId(JOB_PREFIX, job.ns, job.name)
        owners == OrEmpty(job.owner_references)
    IN Concat([k \in 1..Len(owners) |->
                 IF owners[k].kind = CRON_JOB_PREFIX /\ owners[k].uid \in DOMAIN cron_ids
                 THEN <<Edge(cron_ids[owners[k].uid], job_id, "schedule")>>
                 ELSE <<>>])

link_cronjobs_to_jobs(jobs, cronjobs) ==
    LET cron_ids == CronIds(cronjobs)
    IN Concat([i \in 1..Len(jobs) |-> CronEdgesForJob(jobs[i], cron_ids)])

(***************************************************************************)
(* main, lines 191-228: the calls in program order.  pc is the line of     *)
(* main's next call.                                                       *)
(***************************************************************************)
NodeCall(line) ==
    CASE line = 208 -> [items |-> snap.deps, shape |-> "folder", color |-> "lightblue", prefix |-> DEPLOYMENT_PREFIX]
      [] line = 209 -> [items |-> snap.sts, shape |-> "cylinder", color |-> "lightcoral", prefix |-> STATEFUL_SET_PREFIX]
      [] line = 210 -> [items |-> snap.dss, shape |-> "box3d", color |-> "lightyellow", prefix |-> DAEMON_SET_PREFIX]
      [] line = 211 -> [items |-> snap.pods, shape |-> "oval", color |-> "white", prefix |-> POD_PREFIX]
      [] line = 212 -> [items |-> snap.svcs, shape |-> "box", color |-> "orange", prefix |-> SERVICE_PREFIX]
      [] line = 213 -> [items |-> snap.ings, shape |-> "hexagon", color |-> "lightgreen", prefix |-> INGRESS_PREFIX]
      [] line = 214 -> [items |-> snap.jobs, shape |-> "diamond", color |-> "plum", prefix |-> JOB_PREFIX]
      [] line = 215 -> [items |-> snap.cronjobs, shape |-> "parallelogram", color |-> "lightgrey", prefix |-> CRON_JOB_PREFIX]

\* Variant: every owner call draws from the Deployment prefix.
OwnerCallAllDeployment(line) ==
    CASE line = 218 -> [owner_kind |-> REPLICA_SET_PREFIX, label |-> REPLICA_LABEL, prefix |-> DEPLOYMENT_PREFIX]
      [] line = 219 -> [owner_kind |-> STATEFUL_SET_PREFIX, label |-> REPLICA_LABEL, prefix |-> DEPLOYMENT_PREFIX]
      [] line = 220 -> [owner_kind |-> DAEMON_SET_PREFIX, label |-> DAEMON_LABEL, prefix |-> DEPLOYMENT_PREFIX]
      [] line = 221 -> [owner_kind |-> JOB_PREFIX, label |-> JOB_LABEL, prefix |-> DEPLOYMENT_PREFIX]
OwnerCall(line) ==
    CASE line = 218 -> [owner_kind |-> REPLICA_SET_PREFIX, label |-> REPLICA_LABEL, prefix |-> DEPLOYMENT_PREFIX]
      [] line = 219 -> [owner_kind |-> STATEFUL_SET_PREFIX, label |-> REPLICA_LABEL, prefix |-> STATEFUL_SET_PREFIX]
      [] line = 220 -> [owner_kind |-> DAEMON_SET_PREFIX, label |-> DAEMON_LABEL, prefix |-> DAEMON_SET_PREFIX]
      [] line = 221 -> [owner_kind |-> JOB_PREFIX, label |-> JOB_LABEL, prefix |-> JOB_PREFIX]

\* The resolver calls of lines 218-224, numbered 1..7 in program order.
ResolverLine(k) == 217 + k

\* The state after lines 192-207: the snapshot is fetched, the graph is empty.
Start(s) ==
    /\ snap = s
    /\ nodes = <<>>
    /\ edges = <<>>
    /\ pc = 208
    /\ status = "running"
    /\ svc_linked = <<>>
    /\ cur = [k \in 1..7 |-> 0]

\* Lines 208-215.
AddNodes ==
    /\ status = "running"
    /\ pc \in 208..215
    /\ LET c == NodeCall(pc)
       IN nodes' = nodes \o add_nodes(c.items, c.shape, c.color, c.prefix)
    /\ pc' = IF pc = 215 THEN 218 ELSE pc + 1
    /\ UNCHANGED <<snap, edges, status, svc_linked, cur>>

\* Lines 218-221.
LinkOwnerToPods ==
    /\ status = "running"
    /\ pc \in 218..221
    /\ LET c == OwnerCall(pc)
       IN edges' = edges \o link_owner_to_pods(snap.pods, c.owner_kind, c.label, c.prefix)
    /\ pc' = pc + 1
    /\ UNCHANGED <<snap, nodes, status, svc_linked, cur>>

\* Line 222.  An exception leaves main: the program ends without rendering.
LinkServicesToPods ==
    /\ status = "running"
    /\ pc = 222
    /\ LET r == link_services_to_pods(snap.svcs, snap.pods)
       IN /\ edges' = edges \o r.edges
          /\ svc_linked' = r.linked
          /\ status' = IF r.ok THEN "running" ELSE "error"
          /\ pc' = IF r.ok THEN 223 ELSE pc
    /\ UNCHANGED <<snap, nodes, cur>>

\* Line 223.
LinkIngressesToServices ==
    /\ status = "running"
    /\ pc = 223
    /\ LET r == link_ingresses_to_services(snap.ings)
       IN /\ edges' = edges \o r.edges
          /\ status' = IF r.ok THEN "running" ELSE "error"
          /\ pc' = IF r.ok THEN 224 ELSE pc
    /\ UNCHANGED <<snap, nodes, svc_linked, cur>>

\* Line 224.
LinkCronjobsToJobs ==
    /\ status = "running"
    /\ pc = 224
    /\ edges' = edges \o link_cronjobs_to_jobs(snap.jobs, snap.cronjobs)
    /\ pc' = 227
    /\ UNCHANGED <<snap, nodes, status, svc_linked, cur>>

\* Line 227: the graph is handed to the renderer.
Render ==
    /\ status = "running"
    /\ pc = 227
    /\ status' = "done"
    /\ UNCHANGED <<snap, nodes, edges, pc, svc_linked, cur>>

Next ==
    \/ AddNodes
    \/ LinkOwnerToPods
    \/ LinkServicesToPods
    \/ LinkIngressesToServices
    \/ LinkCronjobsToJobs
    \/ Render

(***************************************************************************)
(* Snapshots: what the eight fetch_* calls of lines 197-204 return.  A     *)
(* record keeps the fields the code reads: metadata.namespace (ns),        *)
(* metadata.name, metadata.uid, metadata.labels, metadata.owner_references,*)
(* spec.selector, spec.ports[].target_port, spec.containers[].ports[]      *)
(* .container_port, spec.rules[].http.paths[] with .path and               *)
(* .backend.service.name.  Within a collection (namespace, name) is unique *)
(* and so is uid, as the API server guarantees.                            *)
(***************************************************************************)
MaxPods == 1
MaxOwners == 2
MaxSvcs == 2
MaxSvcPods == 2
MaxIngs == 1
MaxRules == 2
MaxJobs == 1
MaxCron == 1
MaxMeta == 2

NsN == <<"n">>
NsM == <<"m">>
NsNW == <<"n","-","w">>
NameW == <<"w">>
NameA == <<"a">>
NameWA == <<"w","-","a">>
NameWAB == <<"w","-","a","-","b">>

\* Names given to the i-th element of a collection.
ItemNames == << <<"p">>, <<"q">>, <<"r">>, <<"p","-","q">> >>
Uids == <<"u1", "u2", "u3", "u4">>

SeqsUpTo(S, n) == UNION {[1..k -> S] : k \in 0..n}
OptSeqs(S, n) == {None} \cup {Some(q) : q \in SeqsUpTo(S, n)}

Meta(ns, name) == [ns |-> ns, name |-> name]
OwnerRef(kind, name, uid) == [kind |-> kind, name |-> name, uid |-> uid]
Pod(ns, name, owners, labels, containers) ==
    [ns |-> ns, name |-> name, owner_references |-> owners, labels |-> labels,
     containers |-> containers]
Container(ports) == [ports |-> ports]
CPort(n) == [container_port |-> n]
IntPort(n) == [tag |-> "int", num |-> n, name |-> ""]
NamedPort(nm) == [tag |-> "name", num |-> 0, name |-> nm]
SPort(tp) == [target_port |-> tp]
Service(ns, name, selector, ports) ==
    [ns |-> ns, name |-> name, selector |-> selector, ports |-> ports]
Path(path, service_name) == [path |-> path, service_name |-> service_name]
Rule(http) == [http |-> http]
Ingress(ns, name, rules) == [ns |-> ns, name |-> name, rules |-> rules]
Job(ns, name, owners) == [ns |-> ns, name |-> name, owner_references |-> owners]
CronJob(ns, name, uid) == [ns |-> ns, name |-> name, uid |-> uid]

EmptySnap ==
    [deps |-> <<>>, sts |-> <<>>, dss |-> <<>>, pods |-> <<>>, svcs |-> <<>>,
     ings |-> <<>>, jobs |-> <<>>, cronjobs |-> <<>>]

\* Snapshots for the owner resolver: pods with owner references of the four
\* kinds main asks for, beside the controllers those references name.
PodOwnerRefs ==
    {OwnerRef(REPLICA_SET_PREFIX, NameWAB, "u1"),
     OwnerRef(STATEFUL_SET_PREFIX, NameW, "u2"),
     OwnerRef(DAEMON_SET_PREFIX, NameWA, "u3"),
     OwnerRef(JOB_PREFIX, NameWA, "u4")}

OwnerSnap(k, f) ==
    [EmptySnap EXCEPT
       !.pods = [i \in 1..k |-> Pod(f[i][1], ItemNames[i], f[i][2], None, <<Container(None)>>)],
       !.deps = <<Meta(NsN, NameWA)>>,
       !.sts = <<Meta(NsN, NameW)>>,
       !.dss = <<Meta(NsN, NameWA)>>,
       !.jobs = <<Job(NsN, NameWA, None)>>]

\* Snapshots for the Service resolver.
LabelsX == ("app" :> "x")
LabelsXP == ("app" :> "x") @@ ("env" :> "p")
LabelsYP == ("app" :> "y") @@ ("env" :> "p")

SvcShapes ==
    {[selector |-> Some(LabelsXP), ports |-> Some(<<SPort(IntPort(80))>>)],
     [selector |-> Some(LabelsX), ports |-> None],
     [selector |-> None, ports |-> Some(<<SPort(IntPort(81)), SPort(NamedPort("http"))>>)],
     [selector |-> Some(<<>>), ports |-> Some(<<SPort(IntPort(80))>>)],
     [selector |-> None, ports |-> None]}

SvcPodShapes ==
    {[ns |-> NsN, labels |-> Some(LabelsXP), containers |-> <<Container(Some(<<CPort(80)>>))>>],
     [ns |-> NsN, labels |-> Some(LabelsX),
      containers |-> <<Container(Some(<<CPort(80), CPort(81)>>)), Container(Some(<<CPort(81)>>))>>],
     [ns |-> NsN, labels |-> None, containers |-> <<Container(None)>>],
     [ns |-> NsN, labels |-> Some(LabelsYP), containers |-> <<Container(Some(<<CPort(81)>>))>>],
     [ns |-> NsM, labels |-> Some(LabelsXP), containers |-> <<Container(Some(<<CPort(80)>>))>>],
     [ns |-> NsM, labels |-> Some(<<>>), containers |-> <<Container(Some(<<CPort(81)>>))>>]}

SvcSnap(ks, kp, f, g) ==
    [EmptySnap EXCEPT
       !.svcs = [i \in 1..ks |-> Service(NsN, ItemNames[i], f[i].selector, f[i].ports)],
       !.pods = [i \in 1..kp |-> Pod(g[i].ns, ItemNames[i], None, g[i].labels, g[i].containers)]]

\* Snapshots for the Ingress resolver.
RuleShapes ==
    {Rule(None),
     Rule(Some([paths |-> <<>>])),
     Rule(Some([paths |-> <<Path("/api", NameW)>>])),
     Rule(Some([paths |-> <<Path("/", NameWA), Path("/api", NameW)>>]))}

IngSnap(k, f) ==
    [EmptySnap EXCEPT
       !.ings = [i \in 1..k |-> Ingress(f[i][1], ItemNames[i], f[i][2])],
       !.svcs = <<Service(NsN, NameW, None, Some(<<>>))>>]

\* Snapshots for the CronJob resolver.  The i-th CronJob has uid Uids[i];
\* a Job's owner reference may carry the uid of a CronJob of any namespace.
JobOwnerRefs ==
    {OwnerRef(CRON_JOB_PREFIX, NameW, Uids[1]),
     OwnerRef(CRON_JOB_PREFIX, NameW, Uids[MaxCron + 1]),
     OwnerRef(REPLICA_SET_PREFIX, NameW, Uids[1])}

CronSnap(kc, kj, c, j) ==
    [EmptySnap EXCEPT
       !.cronjobs = [i \in 1..kc |-> CronJob(c[i], ItemNames[i], Uids[i])],
       !.jobs = [i \in 1..kj |-> Job(NsN, ItemNames[i], j[i])]]

\* Snapshots for add_nodes: Jobs and CronJobs of pairwise distinct
\* (namespace, name), with hyphens in namespaces and names.
MetaKeys == {NsN, NsNW} \X {NameW, NameA, NameWA}
Distinct(q) == \A i, j \in 1..Len(q) : i # j => q[i] # q[j]

NodeSnap(a, b) ==
    [EmptySnap EXCEPT
       !.jobs = [i \in 1..Len(a) |-> Job(a[i][1], a[i][2], None)],
       !.cronjobs = [i \in 1..Len(b) |-> CronJob(b[i][1], b[i][2], Uids[i])]]

InitOwner ==
    \E k \in 0..MaxPods :
      \E f \in [1..k -> {NsN, NsM} \X OptSeqs(PodOwnerRefs, MaxOwners)] :
        Start(OwnerSnap(k, f))

InitSvc ==
    \E ks \in 0..MaxSvcs, kp \in 0..MaxSvcPods :
      \E f \in [1..ks -> SvcShapes], g \in [1..kp -> SvcPodShapes] :
        Start(SvcSnap(ks, kp, f, g))

InitIng ==
    \E k \in 0..MaxIngs :
      \E f \in [1..k -> {NsN, NsM} \X OptSeqs(RuleShapes, MaxRules)] :
        Start(IngSnap(k, f))

InitCron ==
    \E kc \in 0..MaxCron, kj \in 0..MaxJobs :
      \E c \in [1..kc -> {NsN, NsM}], j \in [1..kj -> OptSeqs(JobOwnerRefs, MaxOwners)] :
        Start(CronSnap(kc, kj, c, j))

InitNodes ==
    \E ka \in 0..MaxMeta, kb \in 0..MaxMeta :
      \E a \in [1..ka -> MetaKeys], b \in [1..kb -> MetaKeys] :
        /\ Distinct(a)
        /\ Distinct(b)
        /\ Start(NodeSnap(a, b))

SpecOwner == InitOwner /\ [][Next]_vars
SpecSvc == InitSvc /\ [][Next]_vars
SpecIng == InitIng /\ [][Next]_vars
SpecCron == InitCron /\ [][Next]_vars
SpecNodes == InitNodes /\ [][Next]_vars

(***************************************************************************)
(* The resolver calls of lines 218-224 run in any order and interleaved:   *)
(* each call keeps its own position cur[k] in its loop over the snapshot   *)
(* (the Service call: first loop, then second loop), and any call may take *)
(* the next iteration of its loop.  An exception in any call ends the      *)
(* program.                                                                *)
(***************************************************************************)
Resolving == status = "running" /\ pc = 218

StepOwner ==
    \E k \in 1..4 :
      /\ Resolving
      /\ cur[k] < Len(snap.pods)
      /\ LET c == OwnerCall(ResolverLine(k))
         IN edges' = edges \o OwnerEdgesForPod(snap.pods[cur[k] + 1], c.owner_kind, c.label, c.prefix)
      /\ cur' = [cur EXCEPT ![k] = @ + 1]
      /\ UNCHANGED <<snap, nodes, pc, status, svc_linked>>

StepSvcPass1 ==
    /\ Resolving
    /\ cur[5] < Len(snap.svcs)
    /\ LET r == Pass1ForSvc(snap.svcs[cur[5] + 1], snap.pods)
       IN /\ edges' = edges \o r.edges
          /\ svc_linked' = svc_linked \o r.linked
    /\ cur' = [cur EXCEPT ![5] = @ + 1]
    /\ UNCHANGED <<snap, nodes, pc, status>>

StepSvcPass2 ==
    /\ Resolving
    /\ cur[5] >= Len(snap.svcs)
    /\ cur[5] < 2 * Len(snap.svcs)
    /\ LET r == Pass2ForSvc(snap.svcs[cur[5] - Len(snap.svcs) + 1], snap.pods, svc_linked)
       IN /\ edges' = edges \o r.edges
          /\ status' = IF r.ok THEN "running" ELSE "error"
          /\ cur' = IF r.ok THEN [cur EXCEPT ![5] = @ + 1] ELSE cur
    /\ UNCHANGED <<snap, nodes, pc, svc_linked>>

StepIngress ==
    /\ Resolving
    /\ cur[6] < Len(snap.ings)
    /\ LET r == IngressEdges(snap.ings[cur[6] + 1])
       IN /\ edges' = edges \o r.edges
          /\ status' = IF r.ok THEN "running" ELSE "error"
          /\ cur' = IF r.ok THEN [cur EXCEPT ![6] = @ + 1] ELSE cur
    /\ UNCHANGED <<snap, nodes, pc, svc_linked>>

StepCron ==
    /\ Resolving
    /\ cur[7] < Len(snap.jobs)
    /\ edges' = edges \o CronEdgesForJob(snap.jobs[cur[7] + 1], CronIds(snap.cronjobs))
    /\ cur' = [cur EXCEPT ![7] = @ + 1]
    /\ UNCHANGED <<snap, nodes, pc, status, svc_linked>>

ResolversDone ==
    /\ Resolving
    /\ \A k \in 1..4 : cur[k] = Len(snap.pods)
    /\ cur[5] = 2 * Len(snap.svcs)
    /\ cur[6] = Len(snap.ings)
    /\ cur[7] = Len(snap.jobs)
    /\ pc' = 227
    /\ UNCHANGED <<snap, nodes, edges, status, svc_linked, cur>>

NextAnyOrder ==
    \/ AddNodes
    \/ StepOwner
    \/ StepSvcPass1
    \/ StepSvcPass2
    \/ StepIngress
    \/ StepCron
    \/ ResolversDone
    \/ Render

\* Snapshots with all four relationships at once, in one namespace but for
\* the CronJob.
MixPodShapes ==
    {[owners |-> Some(<<OwnerRef(REPLICA_SET_PREFIX, NameWAB, "u1"),
                        OwnerRef(STATEFUL_SET_PREFIX, NameWAB, "u2")>>),
      labels |-> Some(LabelsXP), containers |-> <<Container(Some(<<CPort(80)>>))>>],
     [owners |-> Some(<<OwnerRef(DAEMON_SET_PREFIX, NameWA, "u3"),
                        OwnerRef(JOB_PREFIX, NameWA, "u4")>>),
      labels |-> None, containers |-> <<Container(Some(<<CPort(80), CPort(81)>>))>>],
     [owners |-> None, labels |-> Some(LabelsX), containers |-> <<Container(None)>>]}

MixSvcShapes ==
    {[selector |-> Some(LabelsXP), ports |-> Some(<<SPort(IntPort(80))>>)],
     [selector |-> None, ports |-> Some(<<SPort(IntPort(81)), SPort(NamedPort("http"))>>)],
     [selector |-> Some(LabelsX), ports |-> None]}

MixRuleLists ==
    {Some(<<Rule(Some([paths |-> <<Path("/api", ItemNames[1])>>]))>>),
     Some(<<Rule(Some([paths |-> <<Path("/", NameWA)>>])), Rule(None)>>)}

MixJobOwners ==
    {Some(<<OwnerRef(CRON_JOB_PREFIX, NameW, Uids[1])>>),
     Some(<<OwnerRef(CRON_JOB_PREFIX, NameW, Uids[1]), OwnerRef(REPLICA_SET_PREFIX, NameW, Uids[1])>>)}

MixSnap(p, v, r, o, c) ==
    [EmptySnap EXCEPT
       !.deps = <<Meta(NsN, NameWA)>>,
       !.sts = <<Meta(NsN, NameWA)>>,
       !.pods = <<Pod(NsN, ItemNames[1], p.owners, p.labels, p.containers)>>,
       !.svcs = <<Service(NsN, ItemNames[1], v.selector, v.ports)>>,
       !.ings = <<Ingress(NsN, ItemNames[1], r)>>,
       !.jobs = <<Job(NsN, ItemNames[1], o)>>,
       !.cronjobs = <<CronJob(c, ItemNames[1], Uids[1])>>]

InitMix ==
    \E p \in MixPodShapes, v \in MixSvcShapes, r \in MixRuleLists, o \in MixJobOwners,
       c \in {NsN, NsM} :
      Start(MixSnap(p, v, r, o, c))

SpecAnyOrder == InitMix /\ [][NextAnyOrder]_vars

(***************************************************************************)
(* Vocabulary of the claims.                                               *)
(***************************************************************************)
\* The identity scheme "<kind>-<namespace>/<name>".
NodeIdOf(kind, ns, name) == kind \o <<"-">> \o ns \o <<"/">> \o name

\* How many times the edge e is in the graph.
CountEdges(e) == Cardinality({i \in 1..Len(edges) : edges[i] = e})

EdgeSet == {edges[i] : i \in 1..Len(edges)}
NodeIds == {nodes[i].id : i \in 1..Len(nodes)}

FirstIndex(str, ch) ==
    CHOOSE i \in 1..Len(str) : str[i] = ch /\ \A j \in 1..(i - 1) : str[j] # ch

\* The namespace a node id carries: what stands between the hyphen that
\* ends the kind and the slash that starts the name.
NsOfId(id) == SubSeq(id, FirstIndex(id, "-") + 1, FirstIndex(id, "/") - 1)

\* A name with its last hyphen-delimited segment removed: what precedes the
\* last hyphen, and nothing when the name has no hyphen.
HyphensOf(name) == {i \in 1..Len(name) : name[i] = "-"}
WithoutLastSegment(name) ==
    IF HyphensOf(name) = {} THEN <<>>
    ELSE LET h == CHOOSE i \in HyphensOf(name) : \A j \in HyphensOf(name) : j <= i
         IN SubSeq(name, 1, h - 1)

OwnersOf(obj) == IF obj.owner_references = None THEN <<>> ELSE obj.owner_references[1]

\* The owner calls of main that have returned.
OwnerLinesDone == {l \in 218..221 : l < pc}

(***************************************************************************)
(* C1. Namespace isolation: every edge in the graph connects two node ids  *)
(* that carry the same namespace, the edges of link_cronjobs_to_jobs       *)
(* included.                                                               *)
(***************************************************************************)
C1_NamespaceIsolation ==
    \A e \in EdgeSet : NsOfId(e.from) = NsOfId(e.to)

(***************************************************************************)
(* C3. No resolver fails on a missing optional field: main never ends in   *)
(* an exception raised by a resolver.                                      *)
(***************************************************************************)
C3_NoResolverFails == status # "error"

(***************************************************************************)
(* C4. Owner->Pod resolver: once the owner calls have returned, the graph  *)
(* holds, for every call, Pod and owner reference of the call's kind,      *)
(* exactly one edge with the call's label to the Pod's id, from            *)
(* <prefix>-<namespace>/<ownerName> for Job and from                       *)
(* <prefix>-<namespace>/<ownerName without its last segment> otherwise,    *)
(* and no other edge.                                                      *)
(***************************************************************************)
C4_Hits ==
    UNION {{<<l, i, k>> : k \in {k \in 1..Len(OwnersOf(snap.pods[i])) :
                                   OwnersOf(snap.pods[i])[k].kind = OwnerCall(l).owner_kind}} :
           l \in OwnerLinesDone, i \in 1..Len(snap.pods)}

C4_Edge(t) ==
    LET c == OwnerCall(t[1])
        pod == snap.pods[t[2]]
        owner == OwnersOf(pod)[t[3]]
        src == IF c.owner_kind = JOB_PREFIX
               THEN NodeIdOf(c.prefix, pod.ns, owner.name)
               ELSE NodeIdOf(c.prefix, pod.ns, WithoutLastSegment(owner.name))
    IN [from |-> src, to |-> NodeIdOf(POD_PREFIX, pod.ns, pod.name), label |-> c.label]

C4_OwnerEdges ==
    pc \in 219..222 =>
      /\ Len(edges) = Cardinality(C4_Hits)
      /\ \A t \in C4_Hits :
           CountEdges(C4_Edge(t)) = Cardinality({u \in C4_Hits : C4_Edge(u) = C4_Edge(t)})

\* All four calls have returned for a Pod with two owner references, one of
\* them a ReplicaSet's: its Deployment edge is drawn.
C4_Witness ==
    /\ pc = 222
    /\ \E i \in 1..Len(snap.pods) : Len(OwnersOf(snap.pods[i])) = 2
    /\ \E e \in EdgeSet :
         /\ e.from = DEPLOYMENT_PREFIX \o <<"-", "n", "/", "w", "-", "a">>
         /\ e.label = "replica"
    /\ Len(edges) >= 2

(***************************************************************************)
(* C5. No dangling owner edge: for a Pod whose owner reference names a     *)
(* StatefulSet or DaemonSet of the snapshot in the Pod's namespace, the    *)
(* edge drawn to the Pod starts at the node add_nodes made for that owner. *)
(***************************************************************************)
C5_Owned(i, k, kind, items) ==
    /\ OwnersOf(snap.pods[i])[k].kind = kind
    /\ \E j \in 1..Len(items) :
         /\ items[j].ns = snap.pods[i].ns
         /\ items[j].name = OwnersOf(snap.pods[i])[k].name

C5_Linked(i, k, kind) ==
    LET pod == snap.pods[i]
        id == NodeIdOf(kind, pod.ns, OwnersOf(pod)[k].name)
    IN /\ id \in NodeIds
       /\ \E e \in EdgeSet : e.from = id /\ e.to = NodeIdOf(POD_PREFIX, pod.ns, pod.name)

C5_OwnerEdgesNotDangling ==
    pc >= 222 =>
      \A i \in 1..Len(snap.pods) : \A k \in 1..Len(OwnersOf(snap.pods[i])) :
        /\ C5_Owned(i, k, STATEFUL_SET_PREFIX, snap.sts) => C5_Linked(i, k, STATEFUL_SET_PREFIX)
        /\ C5_Owned(i, k, DAEMON_SET_PREFIX, snap.dss) => C5_Linked(i, k, DAEMON_SET_PREFIX)

(***************************************************************************)
(* C8. CronJob->Job resolver: once link_cronjobs_to_jobs has returned, the *)
(* graph holds one 'schedule' edge from a CronJob's id to a Job's id for   *)
(* each owner reference of the Job of kind CronJob whose uid is that       *)
(* CronJob's uid, and no other edge.                                       *)
(***************************************************************************)
C8_Refs(c, j) ==
    {k \in 1..Len(OwnersOf(snap.jobs[j])) :
       /\ OwnersOf(snap.jobs[j])[k].kind = CRON_JOB_PREFIX
       /\ OwnersOf(snap.jobs[j])[k].uid = snap.cronjobs[c].uid}

C8_Edge(c, j) ==
    [from |-> NodeIdOf(CRON_JOB_PREFIX, snap.cronjobs[c].ns, snap.cronjobs[c].name),
     to |-> NodeIdOf(JOB_PREFIX, snap.jobs[j].ns, snap.jobs[j].name),
     label |-> "schedule"]

C8_CronJobEdges ==
    pc >= 227 =>
      /\ \A c \in 1..Len(snap.cronjobs), j \in 1..Len(snap.jobs) :
           CountEdges(C8_Edge(c, j)) = Cardinality(C8_Refs(c, j))
      /\ \A e \in EdgeSet :
           \E c \in 1..Len(snap.cronjobs), j \in 1..Len(snap.jobs) :
             e = C8_Edge(c, j) /\ C8_Refs(c, j) # {}

\* The resolver has returned for a Job with a reference to a CronJob of the
\* snapshot and a reference that yields nothing.
C8_Witness ==
    /\ pc >= 227
    /\ Len(edges) = 1
    /\ \E j \in 1..Len(snap.jobs) : Len(OwnersOf(snap.jobs[j])) = 2

(***************************************************************************)
(* Service->Pod vocabulary.                                                *)
(***************************************************************************)
SelectorOf(svc) == IF svc.selector = None THEN <<>> ELSE svc.selector[1]
LabelsOf(pod) == IF pod.labels = None THEN <<>> ELSE pod.labels[1]

\* The Pod is in the Service's namespace and satisfies its non-empty selector.
Selects(svc, pod) ==
    /\ pod.ns = svc.ns
    /\ DOMAIN SelectorOf(svc) # {}
    /\ \A key \in DOMAIN SelectorOf(svc) :
         key \in DOMAIN LabelsOf(pod) /\ LabelsOf(pod)[key] = SelectorOf(svc)[key]

SelectorLinked(svc) == \E i \in 1..Len(snap.pods) : Selects(svc, snap.pods[i])

\* The numeric target ports of the Service (none when the list is absent).
TargetPortSet(svc) ==
    IF svc.ports = None THEN {}
    ELSE {svc.ports[1][i].target_port.num :
            i \in {i \in 1..Len(svc.ports[1]) : svc.ports[1][i].target_port.tag = "int"}}

\* The declared container ports of the Pod, one per (container, position),
\* whose value is a target port of the Service.
PortHits(svc, pod) ==
    UNION {{<<c, q>> : q \in {q \in 1..Len(OrEmpty(pod.containers[c].ports)) :
                                OrEmpty(pod.containers[c].ports)[q].container_port
                                  \in TargetPortSet(svc)}} :
           c \in 1..Len(pod.containers)}

SvcEdge(svc, pod) ==
    [from |-> NodeIdOf(SERVICE_PREFIX, svc.ns, svc.name),
     to |-> NodeIdOf(POD_PREFIX, pod.ns, pod.name),
     label |-> "svc"]

\* The edges in the graph that leave the Service's node.
EdgesFrom(svc) ==
    {i \in 1..Len(edges) : edges[i].from = NodeIdOf(SERVICE_PREFIX, svc.ns, svc.name)}

\* link_services_to_pods has finished its first loop: it has returned or
\* raised in its second.
SelectorPassDone == pc >= 223 \/ (pc = 222 /\ status = "error")

(***************************************************************************)
(* C2. A Service whose selector is satisfied by a Pod of its namespace     *)
(* gets exactly one 'svc' edge per Pod that satisfies the selector and no  *)
(* port-fallback edge, whatever ports the Pods of the namespace declare.   *)
(***************************************************************************)
C2_SelectorExcludesFallback ==
    SelectorPassDone =>
      \A s \in 1..Len(snap.svcs) :
        SelectorLinked(snap.svcs[s]) =>
          /\ \A i \in 1..Len(snap.pods) :
               CountEdges(SvcEdge(snap.svcs[s], snap.pods[i]))
                 = IF Selects(snap.svcs[s], snap.pods[i]) THEN 1 ELSE 0
          /\ Cardinality(EdgesFrom(snap.svcs[s]))
               = Cardinality({i \in 1..Len(snap.pods) : Selects(snap.svcs[s], snap.pods[i])})

\* A selector-linked Service whose target port is also the container port
\* of a Pod of its namespace that its selector rejects.
C2_Witness ==
    /\ pc >= 223
    /\ \E s \in 1..Len(snap.svcs), i, j \in 1..Len(snap.pods) :
         /\ Selects(snap.svcs[s], snap.pods[i])
         /\ ~Selects(snap.svcs[s], snap.pods[j])
         /\ snap.pods[j].ns = snap.svcs[s].ns
         /\ PortHits(snap.svcs[s], snap.pods[j]) # {}
         /\ CountEdges(SvcEdge(snap.svcs[s], snap.pods[i])) = 1

(***************************************************************************)
(* C7. Port fallback: a Service the selector pass did not link never gets  *)
(* an edge to a Pod of another namespace nor more edges to a Pod than the  *)
(* Pod has container ports in the Service's target-port set; once          *)
(* link_services_to_pods has returned it has exactly one 'svc' edge per    *)
(* such container port of each Pod of its namespace.                       *)
(***************************************************************************)
C7_Expected(svc, pod) ==
    IF pod.ns = svc.ns THEN Cardinality(PortHits(svc, pod)) ELSE 0

C6_Collections ==
    << <<DEPLOYMENT_PREFIX, snap.deps>>, <<STATEFUL_SET_PREFIX, snap.sts>>,
       <<DAEMON_SET_PREFIX, snap.dss>>, <<POD_PREFIX, snap.pods>>,
       <<SERVICE_PREFIX, snap.svcs>>, <<INGRESS_PREFIX, snap.ings>>,
       <<JOB_PREFIX, snap.jobs>>, <<CRON_JOB_PREFIX, snap.cronjobs>> >>

C6_NodesOf(kind, obj) ==
    {n \in 1..Len(nodes) : nodes[n].id = NodeIdOf(kind, obj.ns, obj.name)}

C6_NodesMaterialized ==
    pc >= 218 =>
      /\ Len(nodes) = Len(snap.deps) + Len(snap.sts) + Len(snap.dss) + Len(snap.pods)
                      + Len(snap.svcs) + Len(snap.ings) + Len(snap.jobs) + Len(snap.cronjobs)
      /\ \A c \in 1..8 : \A i \in 1..Len(C6_Collections[c][2]) :
           LET kind == C6_Collections[c][1]
               obj == C6_Collections[c][2][i]
           IN /\ Cardinality(C6_NodesOf(kind, obj)) = 1
              /\ \A n \in C6_NodesOf(kind, obj) : nodes[n].label = kind \o <<"\n">> \o obj.name
      /\ \A m, n \in 1..Len(nodes) : m # n => nodes[m].id # nodes[n].id

\* Four nodes: a Job and a CronJob of the same namespace and name, and two
\* Jobs whose namespace and name differ only in where the hyphen falls.
C6_Witness ==
    /\ pc >= 218
    /\ Len(nodes) = 4
    /\ snap.jobs[1].ns = snap.cronjobs[1].ns /\ snap.jobs[1].name = snap.cronjobs[1].name
    /\ snap.jobs[1].ns # snap.jobs[2].ns
    /\ snap.jobs[1].ns \o <<"-">> \o snap.jobs[1].name
         = snap.jobs[2].ns \o <<"-">> \o snap.jobs[2].name

(***************************************************************************)
(* C9. Ingress->Service resolver: no edge is drawn but from an Ingress's   *)
(* id to Service-<ingress namespace>/<backend service name> with the       *)
(* path as label, at most one per HTTP path entry; once                    *)
(* link_ingresses_to_services has returned there is exactly one per path   *)
(* entry of every rule, whether or not the Service is in the snapshot.     *)
(***************************************************************************)
C9_RulesOf(ing) == IF ing.rules = None THEN <<>> ELSE ing.rules[1]
C9_PathsOf(rule) == IF rule.http = None THEN <<>> ELSE rule.http[1].paths

C9_Entries ==
    UNION {UNION {{<<i, r, q>> : q \in 1..Len(C9_PathsOf(C9_RulesOf(snap.ings[i])[r]))} :
                  r \in 1..Len(C9_RulesOf(snap.ings[i]))} :
           i \in 1..Len(snap.ings)}

C9_Edge(t) ==
    LET ing == snap.ings[t[1]]
        path == C9_PathsOf(C9_RulesOf(ing)[t[2]])[t[3]]
    IN [from |-> NodeIdOf(INGRESS_PREFIX, ing.ns, ing.name),
        to |-> NodeIdOf(SERVICE_PREFIX, ing.ns, path.service_name),
        label |-> path.path]

C10_Call(k) ==
    IF k <= 4
    THEN LET c == OwnerCall(ResolverLine(k))
         IN [edges |-> link_owner_to_pods(snap.pods, c.owner_kind, c.label, c.prefix), ok |-> TRUE]
    ELSE IF k = 5
    THEN LET r == link_services_to_pods(snap.svcs, snap.pods)
         IN [edges |-> r.edges, ok |-> r.ok]
    ELSE IF k = 6 THEN link_ingresses_to_services(snap.ings)
    ELSE [edges |-> link_cronjobs_to_jobs(snap.jobs, snap.cronjobs), ok |-> TRUE]

C10_MainEdges == Concat([k \in 1..7 |-> C10_Call(k).edges])

C10_MainNodes == Concat([l \in 1..8 |->
                   LET c == NodeCall(207 + l)
                   IN add_nodes(c.items, c.shape, c.color, c.prefix)])

C10_Count(q, e) == Cardinality({i \in 1..Len(q) : q[i] = e})
C10_Range(q) == {q[i] : i \in 1..Len(q)}

C10_SameMultiset(a, b) ==
    /\ Len(a) = Len(b)
    /\ \A e \in C10_Range(a) \cup C10_Range(b) : C10_Count(a, e) = C10_Count(b, e)

C10_Disjoint ==
    \A k, l \in 1..7 :
      k # l => C10_Range(C10_Call(k).edges) \cap C10_Range(C10_Call(l).edges) = {}

C10_Outcome ==
    /\ pc = 208 => C10_Disjoint
    /\ status = "error" => \E k \in 1..7 : ~C10_Call(k).ok
    /\ pc = 227 =>
         /\ \A k \in 1..7 : C10_Call(k).ok
         /\ nodes = C10_MainNodes
         /\ C10_SameMultiset(edges, C10_MainEdges)

C10_AppendOnly ==
    /\ Len(edges') >= Len(edges)
    /\ SubSeq(edges', 1, Len(edges)) = edges
    /\ pc >= 218 => nodes' = nodes

C10_OrderIndependence == []C10_Outcome /\ [][C10_AppendOnly]_vars

\* A run in which the CronJob call and the Ingress call finished before
\* the first owner call started, and all calls returned.
C10_Witness ==
    /\ pc = 227
    /\ Len(edges) >= 5
    /\ edges[1].label = "schedule"
    /\ edges[Len(edges)].label \in {"replica", "daemon", "job"}

====
